---- MODULE Spec2Model ----
(***************************************************************************)
(* Solarview: the synchronisation and caching engine of solarview.py       *)
(* (GrowattServerData, GrowattApi) and its caller SolarviewApp, as a state *)
(* machine.  One sync call is the construction of a GrowattServerData      *)
(* object; every remote request of the call is one step.                   *)
(*                                                                         *)
(* Abstractions, all of them bounds:                                       *)
(*  - the calendar has MonthsPerYear months of DaysPerMonth days on the    *)
(*    average, the first a day longer and the last a day shorter; a        *)
(*    datetime is the number of days since Jan 1 of the first year, a date *)
(*    string "YYYY-MM-DD" is the tuple <<year, month, day>>, compared      *)
(*    lexicographically as Python compares the zero-padded strings;        *)
(*  - a time-of-day key is a number in 1..MaxTime;                         *)
(*  - the numbers sent by the server (strings turned into floats by the    *)
(*    code) are small integers;                                            *)
(*  - the server is a function of the date and a sync runs at the start of *)
(*    a day: of a day that is over the server has every sample and the     *)
(*    day's energy, of today and of the days to come no sample and an      *)
(*    energy of 0; the power of a sample is one of two figures, by the day *)
(*    of the sync (a server may revise what it has sent before); its list  *)
(*    of a month ends with today or, on some servers, goes on to the end   *)
(*    of the month.  Every request can fail in every way;                  *)
(*  - a file of the cache directory is one the program wrote, or one with  *)
(*    a name that matches the template and holds no number;                *)
(*  - of SolarviewApp.gsd the state keeps yearsavailable, the one          *)
(*    attribute read after the next sync has begun.                        *)
(***************************************************************************)
EXTENDS Integers, Sequences, FiniteSets, TLC

\* ------------------------------------------------------------------ bounds
MonthsPerYear == 2
DaysPerMonth == 2
MaxTime == 1
MaxDigest == 4

Years == {2019, 2020}
FirstYear == CHOOSE y \in Years : \A z \in Years : y <= z
LastYear == CHOOSE y \in Years : \A z \in Years : z <= y
DaysPerYear == MonthsPerYear * DaysPerMonth
LastDate == (LastYear - FirstYear + 1) * DaysPerYear - 1

Times == 1..MaxTime

\* --------------------------------------------------------------- datetime
\* dt.datetime(y, m, d) as a day number, and its fields
\* the months differ in length, as those of the calendar do
DaysIn(m) ==
    DaysPerMonth + (IF m = 1 THEN 1 ELSE 0) - (IF m = MonthsPerYear THEN 1 ELSE 0)
DaysBefore(m) == (m - 1) * DaysPerMonth + (IF m > 1 THEN 1 ELSE 0)

datetime(y, m, d) == (y - FirstYear) * DaysPerYear + DaysBefore(m) + (d - 1)
year_of(n) == FirstYear + (n \div DaysPerYear)
month_of(n) ==
    CHOOSE m \in 1..MonthsPerYear :
        /\ DaysBefore(m) <= n % DaysPerYear
        /\ n % DaysPerYear < DaysBefore(m) + DaysIn(m)
day_of(n) == (n % DaysPerYear) - DaysBefore(month_of(n)) + 1

\* d.strftime("%Y-%m-%d") and dt.datetime.strptime(s, "%Y-%m-%d")
strftime(n) == <<year_of(n), month_of(n), day_of(n)>>
strptime(s) == datetime(s[1], s[2], s[3])

\* order of the date strings (str.__lt__ on "YYYY-MM-DD")
StrLess(a, b) ==
    \/ a[1] < b[1]
    \/ a[1] = b[1] /\ a[2] < b[2]
    \/ a[1] = b[1] /\ a[2] = b[2] /\ a[3] < b[3]

\* max(self.days.keys())
MaxKey(keys) == CHOOSE k \in keys : \A j \in keys : j = k \/ StrLess(j, k)

\* daterange(start_date, end_date): the dates start .. end inclusive
daterange(start_date, end_date) ==
    [n \in 1..((end_date - start_date) + 1) |-> start_date + (n - 1)]


\* ------------------------------------------------------------ cache files
\* A file name is the text that stands at the "????" of g.pickle_template,
\* four characters; a character is a digit 0..9 or another character (10).
OtherChar == 10
Digits(year) ==
    <<(year \div 1000) % 10, (year \div 100) % 10, (year \div 10) % 10, year % 10>>

\* Path(str(g.pickle_dir / g.pickle_template).replace("????", str(year)))
FileName(year) == Digits(year)

\* int(yearstr): the number, or ValueError (<<>>) when a character is no digit
ParseInt(yearstr) ==
    IF \A i \in 1..Len(yearstr) : yearstr[i] < OtherChar
    THEN <<yearstr[1] * 1000 + yearstr[2] * 100 + yearstr[3] * 10 + yearstr[4]>>
    ELSE <<>>

\* a file of the directory that matches the template and is no cache file of
\* a year ("solarviewdata_back.pkl"); it is there from the beginning
ForeignName == <<OtherChar, OtherChar, OtherChar, OtherChar>>
ForeignContent == <<FALSE, <<0>>, <<>>>>

\* a file that is not what dump_to_picklefile writes (cut short, not bz2, not
\* a pickle of a 3-tuple): bz2.open, pickle.load or the unpacking raises
CorruptContent == <<FALSE>>
Unpickles(t) == Len(t) = 3

\* yearsavailablelocally: files is the result of the glob, a list of names;
\* the names that are no int are passed over (ValueError)
RECURSIVE yearsavailablelocally(_)
yearsavailablelocally(globbed) ==
    IF globbed = <<>> THEN <<>>
    ELSE (IF ParseInt(Head(globbed)) # <<>> THEN <<ParseInt(Head(globbed))[1]>> ELSE <<>>)
         \o yearsavailablelocally(Tail(globbed))

\* ---------------------------------------------------------------- objects
\* An attribute that was never assigned is <<>>, an assigned one is <<value>>.
Unset == <<>>
Set(v) == <<v>>

\* ShinePhoneDayData(datestr, todayenergy): samples = {}
ShinePhoneDayData(datestr, todayenergy) ==
    [datestr |-> datestr, todayenergy |-> todayenergy, samples |-> <<>>]

\* GrowattServerData.__init__, the attributes set before the cache is read
NewObject(year) ==
    [year |-> year,
     year_complete |-> FALSE,
     yearproduction |-> Unset,
     days |-> <<>>,
     plant_id |-> Unset,
     plant_name |-> Unset,
     yearsavailableonserver |-> <<>>,
     yearsavailable |-> <<>>]

\* the object of no call
NoObject == NewObject(0)

\* (mutant: the flag written is always false)
PickleTuple_flagless(o) == <<FALSE, o.yearproduction, o.days>>

\* pickle.dump((self.year_complete, self.yearproduction, self.days), f)
\* (the second item is the attribute, assigned whenever the code gets here)
PickleTuple(o) == <<o.year_complete, o.yearproduction, o.days>>

\* (mutant: the file written is the first year's)
dump_to_firstyear(dir, o, year) ==
    [n \in DOMAIN dir \cup {FileName(FirstYear)} |->
        IF n = FileName(FirstYear) THEN PickleTuple(o) ELSE dir[n]]

\* dump_to_picklefile(year): the directory after the write
dump_to_picklefile(dir, o, year) ==
    [n \in DOMAIN dir \cup {FileName(year)} |->
        IF n = FileName(year) THEN PickleTuple(o) ELSE dir[n]]

\* load_from_picklefile(year) when the file exists, and lines 324-325
load_from_picklefile(o, t) ==
    [o EXCEPT !.year_complete = t[1],
              !.yearproduction = t[2],
              !.days = t[3],
              !.plant_id = Set("plant_id"),
              !.plant_name = Set("plant_name")]

\* ------------------------------------------------------------------ state
VARIABLES
    today,      \* dt.datetime.now(), the day number
    tocome,     \* the server lists the days to come of a month (with 0)
    files,      \* the cache directory: file name -> pickled tuple
    gsd,        \* SolarviewApp.gsd: <<>> or <<gsd.yearsavailable>>
    pc,         \* where the program is
    obj,        \* the GrowattServerData under construction (self)
    loc,        \* locals of __init__ and downloadgrowattdata
    gwa,        \* GrowattApi.logged_in of the call's session
    exc,        \* the exception in flight, "" if none
    msg,        \* the message box shown by the call, "" if none
    hist,       \* history of the call: what was loaded, the requests issued
    saved,      \* history: the snapshot in memory when each file was written,
                \* the end date of that sync, the dates requested up to then
    call        \* a function of the module called on its own: arguments, result

vars == <<today, tocome, files, gsd, pc, obj, loc, gwa, exc, msg, hist, saved, call>>

NoLoc ==
    [caller |-> "", now |-> 0, start_date |-> 0, end_date |-> 0, found |-> FALSE,
     nr_of_days |-> 0, daycount |-> 0, d |-> 0, months |-> <<>>, m |-> 0,
     result |-> FALSE]

\* history of a call: the tuple read from the year's file (<<>> if there was no
\* file), the directory when the call began, the requests and progress reports
\* in their order, the number of files written, the "data" of the total detail
NoHist == [loaded |-> <<>>, files0 |-> <<>>, log |-> <<>>, writes |-> 0, reported |-> <<>>]

\* no function called
NoCall == [fn |-> "", arg |-> <<>>, res |-> <<>>]

\* the cache directory at the start: a file of another program, and, it may
\* be, a damaged file of the last year
Init ==
    /\ today = 0
    /\ tocome \in BOOLEAN
    /\ files \in {[n \in {ForeignName} |-> ForeignContent],
                  [n \in {ForeignName, FileName(LastYear)} |->
                      IF n = ForeignName THEN ForeignContent ELSE CorruptContent]}
    /\ gsd = <<>>
    /\ pc = "off"
    /\ obj = NoObject
    /\ loc = NoLoc
    /\ gwa = FALSE
    /\ exc = ""
    /\ msg = ""
    /\ hist = NoHist
    /\ saved = <<>>
    /\ call = NoCall

\* ---------------------------------------------------- __init__, lines 302-338
Jan1(year) == datetime(year, 1, 1)
Dec31(year) == datetime(year, MonthsPerYear, DaysIn(MonthsPerYear))

\* (mutant: the end is now, whatever the year)
EndDate_now(year, now) == now

\* lines 313-321 and 333-336
EndDate(year, now) == IF year = year_of(now) THEN now ELSE Dec31(year)

\* (mutant: the day after the latest key)
StartDate_dayafter(o, found) ==
    IF found /\ DOMAIN o.days # {}
    THEN strptime(MaxKey(DOMAIN o.days)) + 1
    ELSE Jan1(o.year)

\* lines 327-331 and 338
StartDate(o, found) ==
    IF found /\ DOMAIN o.days # {}
    THEN strptime(MaxKey(DOMAIN o.days))
    ELSE Jan1(o.year)

\* ------------------------------------------------------------- GrowattApi
\* What comes back for one request: no connection, or an HTTP response with a
\* status code and a JSON body that has a "back" object or not, with a truthy
\* "success" item or not.
ConnectionFailed == [conn |-> TRUE, status_code |-> 0, back |-> FALSE, success |-> FALSE]
HttpError == [conn |-> FALSE, status_code |-> 500, back |-> FALSE, success |-> FALSE]
NoBack == [conn |-> FALSE, status_code |-> 200, back |-> FALSE, success |-> FALSE]
NoSuccess == [conn |-> FALSE, status_code |-> 200, back |-> TRUE, success |-> FALSE]
Success == [conn |-> FALSE, status_code |-> 200, back |-> TRUE, success |-> TRUE]
Replies == {ConnectionFailed, HttpError, NoBack, NoSuccess, Success}

\* _back_success_response: "" when the result is returned, else the exception
back_success_response(response) ==
    IF response.status_code # 200 THEN "GrowattApiError"
    ELSE IF ~response.back THEN "KeyError"
    ELSE IF response.success THEN ""
    ELSE "GrowattApiError"

\* self.session.get / post followed by _back_success_response
Request(response) ==
    IF response.conn THEN "ConnectionError" ELSE back_success_response(response)

\* exception classes: GrowattApiError(RuntimeError), LoginError(GrowattApiError)
IsGrowattApiError(e) == e \in {"GrowattApiError", "LoginError"}
IsLoginError(e) == e = "LoginError"
IsConnectionError(e) == e = "ConnectionError"

\* history: one more event of the call
Event(kind, arg, out) == [kind |-> kind, arg |-> arg, out |-> out]
Record(h, kind, arg, out) == [h EXCEPT !.log = Append(@, Event(kind, arg, out))]

\* the "data" item of a plant list: missing, an empty list, or one plant
PlantLists == {[has_data |-> FALSE, data |-> <<>>],
               [has_data |-> TRUE, data |-> <<>>],
               [has_data |-> TRUE, data |-> <<"P1">>]}

\* ------------------------------------- downloadgrowattdata, lines 366-441
Range(seq) == {seq[i] : i \in 1..Len(seq)}

\* (mutant: a month for every date, the same month again and again)
MonthsOf_perdate(dates, months) ==
    [i \in 1..Len(dates) |-> <<year_of(dates[i]), month_of(dates[i])>>]

\* lines 418-421: the distinct (year, month) of the dates, in order
RECURSIVE MonthsOf(_, _)
MonthsOf(dates, months) ==
    IF dates = <<>> THEN months
    ELSE LET ym == <<year_of(Head(dates)), month_of(Head(dates))>>
         IN MonthsOf(Tail(dates), IF ym \in Range(months) THEN months ELSE Append(months, ym))

\* the energy the server has of a day, and of a list of days
EnergyOfDay(d, now) == IF d < now THEN 2 * MaxTime ELSE 0

RECURSIVE EnergyOfDays(_, _)
EnergyOfDays(dates, now) ==
    IF dates = <<>> THEN 0
    ELSE EnergyOfDay(Head(dates), now) + EnergyOfDays(Tail(dates), now)

\* the "data" item of a Timespan.total detail: year -> production, of the
\* years up to this one
TotalDetails(now) ==
    {[has_data |-> FALSE, data |-> <<>>],
     [has_data |-> TRUE,
      data |-> [y \in {z \in Years : z <= year_of(now)} |->
                   EnergyOfDays(daterange(datetime(y, 1, 1),
                                          datetime(y, MonthsPerYear, DaysIn(MonthsPerYear))),
                                now)]]}

\* lines 370-374
YearsOnServer(data) == [y \in {z \in DOMAIN data : data[z] > 0} |-> data[y]]

\* lines 379-382
YearProduction(onserver, start_date) ==
    IF year_of(start_date) \in DOMAIN onserver THEN onserver[year_of(start_date)] ELSE 0

\* where the body goes on after the loop over the dates has come to d
AfterDay(d, l) ==
    IF d <= l.end_date THEN "days"
    ELSE IF MonthsOf(daterange(l.start_date, l.end_date), <<>>) # <<>> THEN "months"
    ELSE "logout"

\* a Timespan.day detail: "plantData" with the plant's name, and "data",
\* "YYYY-MM-DD HH:MM" -> power; either may be missing
SamplesOf(d, now) == IF d < now THEN Times ELSE {}

DayDetails(d, now) ==
    {[plantData |-> FALSE, has_data |-> FALSE, data |-> <<>>],
     [plantData |-> TRUE, has_data |-> FALSE, data |-> <<>>],
     [plantData |-> TRUE, has_data |-> TRUE,
      data |-> [k \in {<<strftime(d), t>> : t \in SamplesOf(d, now)} |-> 600 + (now % 2)]]}

\* (mutant: the power is added to the one that is there)
MergeSamples_add(samples, data) ==
    [timestampstr \in DOMAIN samples \cup {k[2] : k \in DOMAIN data} |->
        IF \E k \in DOMAIN data : k[2] = timestampstr
        THEN data[CHOOSE k \in DOMAIN data : k[2] = timestampstr]
                 + (IF timestampstr \in DOMAIN samples THEN samples[timestampstr] ELSE 0)
        ELSE samples[timestampstr]]

\* lines 403-407: the samples of a day after the merge of "data"
MergeSamples(samples, data) ==
    [timestampstr \in DOMAIN samples \cup {k[2] : k \in DOMAIN data} |->
        IF \E k \in DOMAIN data : k[2] = timestampstr
        THEN data[CHOOSE k \in DOMAIN data : k[2] = timestampstr]
        ELSE samples[timestampstr]]

\* lines 399-401 and 439-440: the day of datestr, made if it is not there
WithDay(days, datestr) ==
    IF datestr \in DOMAIN days THEN days
    ELSE [k \in DOMAIN days \cup {datestr} |->
             IF k = datestr THEN ShinePhoneDayData(datestr, 0) ELSE days[k]]

\* (mutant: the fraction rounded to the nearest whole number)
Progress_round(daycount, nr_of_days) ==
    (2 * 100 * daycount + nr_of_days) \div (2 * nr_of_days)

\* int(100 * daycount / nr_of_days)
Progress(daycount, nr_of_days) == (100 * daycount) \div nr_of_days

\* (mutant: the report follows the request, and only one that went through)
DayEvents_after(h, daycount, nr_of_days, d, raised) ==
    IF raised = ""
    THEN Record(Record(h, "day", d, raised), "progress", Progress(daycount, nr_of_days), "")
    ELSE Record(h, "day", d, raised)

\* lines 388-392: setprogress is called, then the day's detail is requested
DayEvents(h, daycount, nr_of_days, d, raised) ==
    Record(Record(h, "progress", Progress(daycount, nr_of_days), ""), "day", d, raised)

\* the "data" item of a Timespan.month detail: day of the month -> energy
MonthDetails(ym, now, listed) ==
    {[has_data |-> FALSE, data |-> <<>>],
     [has_data |-> TRUE,
      data |-> [dd \in {x \in 1..DaysIn(ym[2]) :
                           listed \/ datetime(ym[1], ym[2], x) <= now} |->
                   EnergyOfDay(datetime(ym[1], ym[2], dd), now)]]}

\* (mutant: the key is matched by its day of the month alone)
MergeMonth_anymonth(days, ym, monthdata) ==
    [datestr \in DOMAIN days \cup {<<ym[1], ym[2], dd>> : dd \in DOMAIN monthdata} |->
        IF datestr[1] = ym[1] /\ datestr[3] \in DOMAIN monthdata
        THEN [WithDay(days, datestr)[datestr] EXCEPT !.todayenergy = monthdata[datestr[3]]]
        ELSE days[datestr]]

\* lines 435-441: the days after the merge of the month's data
MergeMonth(days, ym, monthdata) ==
    [datestr \in DOMAIN days \cup {<<ym[1], ym[2], dd>> : dd \in DOMAIN monthdata} |->
        IF datestr[1] = ym[1] /\ datestr[2] = ym[2] /\ datestr[3] \in DOMAIN monthdata
        THEN [WithDay(days, datestr)[datestr] EXCEPT !.todayenergy = monthdata[datestr[3]]]
        ELSE days[datestr]]

\* ----------------------------- lines 443-457 and __init__, lines 340-350
\* the except clauses in their order: the title of the message box of the
\* first clause that matches, "" when none does and the exception goes on
Handler(e) ==
    IF IsGrowattApiError(e) THEN "Connection Error"
    ELSE IF IsConnectionError(e) THEN "Connection Error"
    ELSE IF IsLoginError(e) THEN "Login Error"
    ELSE ""

\* (mutants: a failed login counts as data received; every call does)
Result_loginok(e) == e \in {"", "LoginError", "ConnectionError"}
Result_always(e) == TRUE

\* the value downloadgrowattdata returns
Result(e) == e = ""

\* (mutants: the flag is left as it is; the flag is set whatever the year)
Completed_asis(o, start_date, now) == o
Completed_always(o, start_date, now) == [o EXCEPT !.year_complete = TRUE]

\* lines 342-343
Completed(o, start_date, now) ==
    IF year_of(start_date) < year_of(now) THEN [o EXCEPT !.year_complete = TRUE] ELSE o

\* the lists of the elements of a set, in every order
Orderings(S) ==
    {s \in [1..Cardinality(S) -> S] : \A i, j \in 1..Cardinality(S) : s[i] = s[j] => i = j}

\* lines 347-349
RECURSIVE AppendMissing(_, _)
AppendMissing(yearsavailable, onserver) ==
    IF onserver = <<>> THEN yearsavailable
    ELSE AppendMissing(IF Head(onserver) \in Range(yearsavailable)
                       THEN yearsavailable
                       ELSE Append(yearsavailable, Head(onserver)),
                       Tail(onserver))

\* list.sort()
RECURSIVE Insert(_, _)
Insert(x, sorted) ==
    IF sorted = <<>> THEN <<x>>
    ELSE IF x <= Head(sorted) THEN <<x>> \o sorted
    ELSE <<Head(sorted)>> \o Insert(x, Tail(sorted))

RECURSIVE Sort(_)
Sort(list) == IF list = <<>> THEN <<>> ELSE Insert(Head(list), Sort(Tail(list)))

\* (mutant: the list is left as appended)
YearsAvailable_unsorted(globbed, onserver) ==
    AppendMissing(yearsavailablelocally(globbed), onserver)

\* lines 346-350: globbed is the directory as listed, onserver the keys of
\* yearsavailableonserver as iterated
YearsAvailable(globbed, onserver) ==
    Sort(AppendMissing(yearsavailablelocally(globbed), onserver))

\* (mutant: every year is downloaded)
SkipDownload_never(o) == FALSE

\* line 340: a complete year is not downloaded
SkipDownload(o) == o.year_complete

\* lines 341-350, result being what downloadgrowattdata returned (FALSE when it
\* was not called)
Rest(o, l, h, result) ==
    LET done == IF result THEN Completed(o, l.start_date, l.now) ELSE o
        dir == IF result THEN dump_to_picklefile(files, done, done.year) ELSE files
    IN /\ files' = dir
       /\ saved' = IF result
                   THEN [n \in DOMAIN saved \cup {FileName(done.year)} |->
                            IF n = FileName(done.year)
                            THEN [year_complete |-> done.year_complete,
                                  yearproduction |-> done.yearproduction,
                                  days |-> done.days,
                                  plant_id |-> done.plant_id,
                                  plant_name |-> done.plant_name,
                                  end_date |-> l.end_date,
                                  requested |->
                                      {h.log[i].arg : i \in {j \in 1..Len(h.log) :
                                                                h.log[j].kind = "day"}}
                                      \cup (IF FileName(done.year) \in DOMAIN saved
                                            THEN saved[FileName(done.year)].requested
                                            ELSE {})]
                            ELSE saved[n]]
                   ELSE saved
       /\ hist' = IF result THEN [h EXCEPT !.writes = @ + 1] ELSE h
       /\ loc' = [l EXCEPT !.result = result]
       /\ \E globbed \in Orderings(DOMAIN dir),
             onserver \in Orderings(DOMAIN done.yearsavailableonserver) :
             obj' = [done EXCEPT !.yearsavailable = YearsAvailable(globbed, onserver)]
       /\ exc' = ""
       /\ pc' = "done"

\* the with block is left with e in flight ("" if none): the except clauses
\* (lines 443-457), then the rest of __init__ unless the exception goes on
Finish(o, l, h, e) ==
    IF e # "" /\ Handler(e) = ""
    THEN /\ pc' = "raised"
         /\ exc' = e
         /\ obj' = o
         /\ loc' = l
         /\ hist' = h
         /\ msg' = ""
         /\ UNCHANGED <<files, saved>>
    ELSE /\ Rest(o, l, h, Result(e))
         /\ msg' = Handler(e)

\* (mutant: an exception leaves the block without __exit__)
Continue_noexit(o, l, h, e, next) ==
    IF e = ""
    THEN /\ obj' = o
         /\ loc' = l
         /\ hist' = h
         /\ exc' = e
         /\ pc' = next
         /\ UNCHANGED <<files, saved, msg>>
    ELSE Finish(o, l, h, e)

\* a request of the with block is over, the session logged in: on to next,
\* or out of the block (__exit__, lines 145-147) with e in flight
Continue(o, l, h, e, next) ==
    /\ obj' = o
    /\ loc' = l
    /\ hist' = h
    /\ exc' = e
    /\ pc' = IF e = "" THEN next ELSE "logout"
    /\ UNCHANGED <<files, saved, msg>>

\* __init__, lines 302-340: a complete year goes on to line 346
Construct(year, caller) ==
    LET found == FileName(year) \in DOMAIN files
        corrupt == found /\ ~Unpickles(files[FileName(year)])
        o == IF found /\ ~corrupt
             THEN load_from_picklefile(NewObject(year), files[FileName(year)])
             ELSE NewObject(year)
        l == [NoLoc EXCEPT !.caller = caller, !.now = today, !.found = found,
                           !.start_date = StartDate(o, found),
                           !.end_date = EndDate(year, today)]
        h == [NoHist EXCEPT !.loaded = IF found /\ ~corrupt
                                       THEN <<files[FileName(year)]>> ELSE <<>>,
                            !.files0 = files]
    IN /\ IF corrupt
          THEN /\ obj' = o
               /\ loc' = [NoLoc EXCEPT !.caller = caller, !.now = today]
               /\ hist' = h
               /\ pc' = "raised"
               /\ exc' = "UnpicklingError"
               /\ msg' = ""
               /\ UNCHANGED <<files, saved>>
          ELSE IF SkipDownload(o)
          THEN Rest(o, l, h, FALSE) /\ msg' = ""
          ELSE /\ obj' = o
               /\ loc' = l
               /\ hist' = h
               /\ pc' = "login"
               /\ exc' = ""
               /\ msg' = ""
               /\ UNCHANGED <<files, saved>>
       /\ gwa' = FALSE
       /\ UNCHANGED <<call, today, tocome, gsd>>

\* SolarviewApp.__init__: the first sync is of the current year
Launch ==
    /\ pc = "off"
    /\ Construct(year_of(today), "SolarviewApp")

\* SolarviewApp.select_year: a year of the list the last sync made
select_year ==
    /\ pc = "idle"
    /\ \E i \in 1..Len(gsd[1]) :
          /\ gsd[1][i] > 0
          /\ Construct(gsd[1][i], "select_year")

\* GrowattApi.login, called at line 359; not logged in, __exit__ does nothing
login ==
    /\ pc = "login"
    /\ \E response \in Replies :
          LET e == Request(response)
              raised == IF IsGrowattApiError(e) THEN "LoginError" ELSE e
              h == Record(hist, "login", 0, raised)
          IN IF raised = ""
             THEN Continue(obj, loc, h, "", "plant_list") /\ gwa' = TRUE
             ELSE Finish(obj, loc, h, raised) /\ gwa' = FALSE
    /\ UNCHANGED <<call, today, tocome, gsd>>

\* lines 360-364
plant_list ==
    /\ pc = "plant_list"
    /\ \E response \in Replies, plant_info \in PlantLists :
          LET e == Request(response)
              raised == IF e # "" THEN e
                        ELSE IF ~plant_info.has_data THEN "KeyError"
                        ELSE IF plant_info.data = <<>> THEN "IndexError"
                        ELSE ""
              o == IF raised = ""
                   THEN [obj EXCEPT !.plant_id = Set(plant_info.data[1]),
                                    !.plant_name = Set("")]
                   ELSE obj
          IN Continue(o, loc, Record(hist, "plant_list", 0, raised), raised, "total")
    /\ UNCHANGED <<call, today, tocome, gsd, gwa>>

\* lines 367-386
total ==
    /\ pc = "total"
    /\ \E response \in Replies, plant_detail \in TotalDetails(loc.now) :
          LET e == Request(response)
              raised == IF e # "" THEN e
                        ELSE IF ~plant_detail.has_data THEN "KeyError"
                        ELSE ""
              onserver == YearsOnServer(plant_detail.data)
              o == IF raised = ""
                   THEN [obj EXCEPT !.yearsavailableonserver = onserver,
                                    !.yearproduction =
                                        Set(YearProduction(onserver, loc.start_date))]
                   ELSE obj
              l == IF raised = ""
                   THEN [loc EXCEPT !.nr_of_days = (loc.end_date - loc.start_date) + 1,
                                    !.daycount = 0,
                                    !.d = loc.start_date,
                                    !.months = MonthsOf(daterange(loc.start_date,
                                                                  loc.end_date), <<>>),
                                    !.m = 1]
                   ELSE loc
              h == IF raised = ""
                   THEN [Record(hist, "total", 0, raised) EXCEPT
                            !.reported = plant_detail.data]
                   ELSE Record(hist, "total", 0, raised)
          IN Continue(o, l, h, raised, AfterDay(l.d, l))
    /\ UNCHANGED <<call, today, tocome, gsd, gwa>>

\* lines 387-407, one date of the loop
day ==
    /\ pc = "days"
    /\ \E response \in Replies, plant_detail \in DayDetails(loc.d, loc.now) :
          LET e == Request(response)
              raised == IF e # "" THEN e
                        ELSE IF ~plant_detail.plantData \/ ~plant_detail.has_data
                             THEN "KeyError"
                        ELSE ""
              daycount == loc.daycount + 1
              datestr == strftime(loc.d)
              named == IF e = "" /\ plant_detail.plantData
                       THEN [obj EXCEPT !.plant_name = Set("Home")]
                       ELSE obj
              made == IF e = "" /\ plant_detail.plantData
                      THEN [named EXCEPT !.days = WithDay(@, datestr)]
                      ELSE named
              merged == IF raised = ""
                        THEN [made EXCEPT !.days[datestr].samples =
                                              MergeSamples(@, plant_detail.data)]
                        ELSE made
              l == IF raised = ""
                   THEN [loc EXCEPT !.daycount = daycount, !.d = loc.d + 1]
                   ELSE [loc EXCEPT !.daycount = daycount]
              h == DayEvents(hist, daycount, loc.nr_of_days, loc.d, raised)
          IN Continue(merged, l, h, raised, AfterDay(l.d, l))
    /\ UNCHANGED <<call, today, tocome, gsd, gwa>>

\* lines 425-441, one month of the loop
month ==
    /\ pc = "months"
    /\ \E response \in Replies,
          plantdetail_month \in MonthDetails(loc.months[loc.m], loc.now, tocome) :
          LET e == Request(response)
              raised == IF e # "" THEN e
                        ELSE IF ~plantdetail_month.has_data THEN "KeyError"
                        ELSE ""
              ym == loc.months[loc.m]
              firstday == datetime(ym[1], ym[2], 1)
              o == IF raised = ""
                   THEN [obj EXCEPT !.days = MergeMonth(@, ym, plantdetail_month.data)]
                   ELSE obj
              l == IF raised = "" THEN [loc EXCEPT !.m = loc.m + 1] ELSE loc
          IN Continue(o, l, Record(hist, "month", firstday, raised), raised,
                      IF loc.m < Len(loc.months) THEN "months" ELSE "logout")
    /\ UNCHANGED <<call, today, tocome, gsd, gwa>>

\* GrowattApi.__exit__ with logged_in: logout, a request that may find no
\* connection; then the except clauses and the rest of __init__
logout ==
    /\ pc = "logout"
    /\ \E response \in {ConnectionFailed, Success} :
          LET raised == IF response.conn THEN "ConnectionError" ELSE ""
          IN /\ Finish(obj, loc, Record(hist, "logout", 0, raised),
                       IF raised # "" THEN raised ELSE exc)
             /\ gwa' = response.conn
    /\ UNCHANGED <<call, today, tocome, gsd>>

\* the constructor returns: self.gsd = GrowattServerData(...)
return ==
    /\ pc = "done"
    /\ gsd' = <<obj.yearsavailable>>
    /\ pc' = "idle"
    /\ obj' = NoObject
    /\ loc' = NoLoc
    /\ hist' = NoHist
    /\ msg' = ""
    /\ UNCHANGED <<call, today, tocome, files, gwa, exc, saved>>

\* the constructor raised: SolarviewApp.__init__ ends with it and there is no
\* application; in select_year the callback ends and self.gsd is the old object
raise ==
    /\ pc = "raised"
    /\ pc' = IF loc.caller = "SolarviewApp" THEN "off" ELSE "idle"
    /\ gsd' = IF loc.caller = "SolarviewApp" THEN <<>> ELSE gsd
    /\ obj' = NoObject
    /\ loc' = NoLoc
    /\ hist' = NoHist
    /\ exc' = ""
    /\ msg' = ""
    /\ gwa' = FALSE
    /\ UNCHANGED <<call, today, tocome, files, saved>>

\* the menu's Exit: root.destroy
Exit ==
    /\ pc = "idle"
    /\ pc' = "off"
    /\ gsd' = <<>>
    /\ UNCHANGED <<call, today, tocome, files, obj, loc, gwa, exc, msg, hist, saved>>

\* the next day begins while no sync is running
Tick ==
    /\ pc \in {"off", "idle"}
    /\ today < LastDate
    /\ today' = today + 1
    /\ UNCHANGED <<call, tocome, files, gsd, pc, obj, loc, gwa, exc, msg, hist, saved>>

Next ==
    \/ Launch
    \/ select_year
    \/ login
    \/ plant_list
    \/ total
    \/ day
    \/ month
    \/ logout
    \/ return
    \/ raise
    \/ Exit
    \/ Tick

Spec == Init /\ [][Next]_vars

\* ------------------------------------------ hash_password, lines 97-105
\* A string is the sequence of its characters; the index i of the code counts
\* from 0 and is the character i + 1 of the sequence.
HexChars == {"0", "1", "c"}

\* the hex digests, up to MaxDigest characters (hexdigest() gives 32)
Digests == UNION {[1..n -> HexChars] : n \in 0..MaxDigest}

\* (mutant: every index)
range_by_one(len) == [k \in 1..len |-> k - 1]

\* range(0, len, 2)
range_by_two(len) == [k \in 1..((len + 1) \div 2) |-> 2 * (k - 1)]

\* lines 103-104, one pass of the loop body
ReplaceAt(password_md5, i) ==
    IF password_md5[i + 1] = "0"
    THEN SubSeq(password_md5, 1, i) \o <<"c">>
             \o SubSeq(password_md5, i + 2, Len(password_md5))
    ELSE password_md5

\* lines 102-104, the loop over the indexes still to come
RECURSIVE ReplaceLoop(_, _)
ReplaceLoop(password_md5, indexes) ==
    IF indexes = <<>> THEN password_md5
    ELSE ReplaceLoop(ReplaceAt(password_md5, Head(indexes)), Tail(indexes))

\* hash_password from the digest on: lines 102-105
hash_password(password_md5) ==
    ReplaceLoop(password_md5, range_by_two(Len(password_md5)))

\* ------------------------------------- Projection, lines 489-518
height == 800
bottommargin == 50
leftmargin == 50
rightmargin == 50
linewidth == 2
pixels_per_day == linewidth + 1
width == (linewidth + 1) * 365 + leftmargin + rightmargin
pixels_per_kwh == 6
pixels_per_hour == 30
fiveoclockbase == height - bottommargin - 35 * pixels_per_kwh

\* power_to_color_table: (upperbound, color); the upper bound is <<n>>, and
\* <<>> for float("inf")
power_to_color_table ==
    << <<Set(0), "#C0C0C0">>,
       <<Set(500), "#87CEFA">>,
       <<Set(1000), "#00FF00">>,
       <<Set(2000), "#FFFF00">>,
       <<Set(3000), "#FFA500">>,
       <<Set(4000), "#FF0000">>,
       <<Unset, "#B00000">> >>

\* (mutant: the upper bound is exclusive)
NotAbove_strict(power, upperbound) == upperbound = Unset \/ power < upperbound[1]

\* power <= upperbound
NotAbove(power, upperbound) == upperbound = Unset \/ power <= upperbound[1]

\* the loop of power_to_color over the table from entry i on: <<color>> at the
\* first return, <<>> (None) when the loop ends without one
RECURSIVE ColorFrom(_, _)
ColorFrom(power, i) ==
    IF i > Len(power_to_color_table) THEN Unset
    ELSE IF NotAbove(power, power_to_color_table[i][1])
         THEN Set(power_to_color_table[i][2])
         ELSE ColorFrom(power, i + 1)

power_to_color(power) == ColorFrom(power, 1)

\* ------------------------------ plot_production_pil, lines 756-789
\* Coordinates are in 1/PerPixel of a pixel, which makes the divisions by 2
\* and by 60 of the code exact.  A time key t of the model is the time string
\* of t five-minute steps past 05:00, as <<hours, minutes>>.
PerPixel == 60
TimeString(t) == <<5 + ((5 * t) \div 60), (5 * t) % 60>>

\* isodate_diff(d, "{:4}-01-01".format(year))
isodate_diff(datestr, year) == strptime(datestr) - datetime(year, 1, 1)

\* isotime_to_m of "HH:MM"
isotime_to_m(timestr) == timestr[1] * 60 + timestr[2]

\* lines 765-769
XOfOffset(days) ==
    PerPixel * leftmargin + PerPixel * days * pixels_per_day
        + (PerPixel * pixels_per_day) \div 2
XOfDay(datestr, year) == XOfOffset(isodate_diff(datestr, year))

\* draw.line(xy, fill, width); fill is <<colour>>, and <<>> for None
Line(xa, ya, xb, yb, fill) == [xy |-> <<xa, ya, xb, yb>>, fill |-> fill, width |-> linewidth]

\* the line of a day's energy, drawn whatever the samples
EnergyLine(x, rec) ==
    Line(x, PerPixel * (height - bottommargin),
         x, PerPixel * (height - bottommargin) - PerPixel * rec.todayenergy * pixels_per_kwh,
         Set("(0, 0, 128)"))

\* (mutant: the energy is drawn for every day)
DayVolume_always(x, rec) == {EnergyLine(x, rec)}

\* lines 773-780: plot day volume, only if detailed day data available
DayVolume(x, rec) == IF DOMAIN rec.samples # {} THEN {EnergyLine(x, rec)} ELSE {}

\* lines 785-789: the heatmap of a day
Heatmap(x, rec) ==
    {LET time_of_day_m == isotime_to_m(TimeString(ts))
         y == PerPixel * fiveoclockbase - (time_of_day_m - 5 * 60) * pixels_per_hour
     IN Line(x, y, x, y - 5 * pixels_per_hour, power_to_color(rec.samples[ts]))
     : ts \in DOMAIN rec.samples}

\* the lines drawn for the days of a snapshot
plot_production_pil(year, days) ==
    UNION {DayVolume(XOfDay(d, year), days[d]) \cup Heatmap(XOfDay(d, year), days[d])
           : d \in DOMAIN days}

\* plot_title_pil, lines 814-832: "" when the titles are drawn, else the
\* exception of the first attribute read that the object does not have
plot_title_pil(o) ==
    IF o.plant_id = Unset \/ o.plant_name = Unset THEN "AttributeError"
    ELSE IF o.yearproduction = Unset THEN "AttributeError"
    ELSE ""

\* ------------------------------------------- the functions, one call each
\* A behaviour of SpecFunctions is one call of one function on arguments of
\* its own, with the result.
\* what the server may send as a power, what it may send as a day's energy
Powers == {0, 500, 501, 600, 4001}
Energies == 0..(2 * MaxTime + 1)

\* day records of one date: any energy, samples at any of the times
DayRecords(datestr) ==
    UNION {{[datestr |-> datestr, todayenergy |-> e, samples |-> f] :
                e \in Energies, f \in [T -> Powers]} : T \in SUBSET Times}

Call_plot_production_pil ==
    /\ call = NoCall
    /\ \E year \in Years, n \in 0..LastDate :
          /\ year_of(n) = year
          /\ \E rec \in DayRecords(strftime(n)) :
                LET days == [k \in {strftime(n)} |-> rec]
                IN call' = [fn |-> "plot_production_pil",
                            arg |-> <<year, days>>,
                            res |-> plot_production_pil(year, days)]
    /\ UNCHANGED <<today, tocome, files, gsd, pc, obj, loc, gwa, exc, msg, hist, saved>>

\* powers from below zero to above the last finite bound
PowerArguments == -2..4002

Call_power_to_color ==
    /\ call = NoCall
    /\ \E power \in PowerArguments :
          call' = [fn |-> "power_to_color", arg |-> <<power>>, res |-> power_to_color(power)]
    /\ UNCHANGED <<today, tocome, files, gsd, pc, obj, loc, gwa, exc, msg, hist, saved>>

Call_hash_password ==
    /\ call = NoCall
    /\ \E password_md5 \in Digests :
          call' = [fn |-> "hash_password", arg |-> password_md5,
                   res |-> hash_password(password_md5)]
    /\ UNCHANGED <<today, tocome, files, gsd, pc, obj, loc, gwa, exc, msg, hist, saved>>

\* the times of the samples and of the "data" of a merge, one more than a
\* day of the server has, and the sample maps over them
MergeTimes == 1..(MaxTime + 1)
SampleMaps == UNION {[T -> {500, 600}] : T \in SUBSET MergeTimes}

\* lines 403-407 on a sample map and the "data" of a day detail, done once
\* and done again with the same "data"
Call_merge_samples ==
    /\ call = NoCall
    /\ \E samples \in SampleMaps, sent \in SampleMaps :
          LET data == [k \in {<<strftime(0), t>> : t \in DOMAIN sent} |-> sent[k[2]]]
              once == MergeSamples(samples, data)
          IN call' = [fn |-> "merge_samples", arg |-> <<samples, data>>,
                      res |-> <<once, MergeSamples(once, data)>>]
    /\ UNCHANGED <<today, tocome, files, gsd, pc, obj, loc, gwa, exc, msg, hist, saved>>

\* The x of the dates of a whole year: here the dates are those of the
\* calendar of dt.datetime, twelve months, February by the leap year rule.
IsLeap(y) == (y % 4 = 0 /\ y % 100 # 0) \/ y % 400 = 0
MonthDays(y, m) ==
    IF m = 2 THEN (IF IsLeap(y) THEN 29 ELSE 28)
    ELSE IF m \in {4, 6, 9, 11} THEN 30 ELSE 31
GregorianDates(y) == {s \in {y} \X (1..12) \X (1..31) : s[3] <= MonthDays(y, s[2])}

\* isodate_diff(d, "{:4}-01-01".format(year)) of such a date of the year
RECURSIVE DaysBeforeMonth(_, _)
DaysBeforeMonth(y, m) ==
    IF m = 1 THEN 0 ELSE DaysBeforeMonth(y, m - 1) + MonthDays(y, m - 1)
GregorianDiff(datestr) == DaysBeforeMonth(datestr[1], datestr[2]) + (datestr[3] - 1)

Call_x_of_day ==
    /\ call = NoCall
    /\ \E year \in Years :
          \E d \in GregorianDates(year) :
             call' = [fn |-> "x_of_day", arg |-> d, res |-> <<XOfOffset(GregorianDiff(d))>>]
    /\ UNCHANGED <<today, tocome, files, gsd, pc, obj, loc, gwa, exc, msg, hist, saved>>

InitFunctions ==
    /\ Init
    /\ ~tocome
    /\ DOMAIN files = {ForeignName}

NextFunctions ==
    \/ Call_plot_production_pil
    \/ Call_power_to_color
    \/ Call_hash_password
    \/ Call_merge_samples
    \/ Call_x_of_day

SpecFunctions == InitFunctions /\ [][NextFunctions]_vars


\* ================================================================ claims
\* the snapshot of an object: complete flag, annual production, day records
Snapshot(o) == <<o.year_complete, o.yearproduction, o.days>>

\* the snapshot the call had after the load, before any fetch
LoadedSnapshot ==
    IF hist.loaded # <<>> THEN hist.loaded[1] ELSE Snapshot(NewObject(obj.year))

\* the call found the year's file, and the file said complete
LoadedComplete == hist.loaded # <<>> /\ hist.loaded[1][1]

\* C1: when the year's cache file loads with complete == true, the call issues
\* no remote request at all and the snapshot it ends with (complete flag,
\* annual production, day records) is exactly what was loaded.
C1_CompleteCacheNoRequest ==
    LoadedComplete =>
        /\ hist.log = <<>>
        /\ pc = "done"
        /\ Snapshot(obj) = hist.loaded[1]
        /\ obj.year_complete

C1_Witness ==
    /\ pc = "done"
    /\ LoadedComplete
    /\ DOMAIN obj.days # {}

\* a cache file is written by this step
Written(n) ==
    /\ hist'.writes = hist.writes + 1
    /\ FileName(obj'.year) = n

\* C2: once the cache file of a year holds complete == true, no step of any
\* later sync (of any year, failing or not) writes it again: it stays in the
\* directory with the same complete flag, annual production and day records.
C2_CompleteFileNeverWritten ==
    [][\A n \in DOMAIN files :
          files[n][1] => /\ n \in DOMAIN files'
                         /\ files'[n] = files[n]
                         /\ ~Written(n)]_vars

\* a call that wrote another year's file while a complete file was there
C2_Witness ==
    /\ pc = "done"
    /\ hist.writes = 1
    /\ \E n \in DOMAIN hist.files0 :
          /\ hist.files0[n][1]
          /\ n # FileName(obj.year)
          /\ files[n] = hist.files0[n]

\* the login of the call failed: rejected (status or success flag) or no connection
LoginFailed ==
    /\ hist.log # <<>>
    /\ hist.log[1].kind = "login"
    /\ hist.log[1].out \in {"LoginError", "ConnectionError"}

\* C3: when login fails, the snapshot after the call equals the snapshot as
\* loaded before the fetch, and no cache file is written.
C3_LoginFailureKeepsSnapshot ==
    (pc = "done" /\ LoginFailed) =>
        /\ Snapshot(obj) = LoadedSnapshot
        /\ hist.writes = 0
        /\ files = hist.files0
        /\ ~loc.result

C3_Witness ==
    /\ pc = "done"
    /\ LoginFailed
    /\ hist.loaded # <<>>
    /\ DOMAIN obj.days # {}

\* a request of the fetch after the login failed with an error the call reports
FetchFailed ==
    \E i \in 1..Len(hist.log) :
        /\ hist.log[i].kind \in {"plant_list", "total", "day", "month"}
        /\ hist.log[i].out \in {"GrowattApiError", "ConnectionError"}

\* C4: a remote failure at any point of the fetch (plant list, total, a day
\* request, a month request) leaves the caller with the snapshot that existed
\* before the fetch: nothing merged before the failure remains.
C4_FailureKeepsSnapshot ==
    (pc = "done" /\ FetchFailed) => Snapshot(obj) = LoadedSnapshot

\* C5: no remote failure propagates out of the sync call as an uncaught
\* fault, whatever the failure (connection, status, success flag, malformed
\* envelope, empty plant list): the call always returns.
C5_NoFaultPropagates == ~(pc = "raised" /\ exc \in {"KeyError", "IndexError"})

\* the requests of one kind, in the order they were sent
RequestsOf(kind) == SelectSeq(hist.log, LAMBDA ev : ev.kind = kind)

\* the fetch went through: login, plant list, total, a day request for every
\* date of the range, a month request for every month of it, none failing
FetchSucceeded ==
    /\ \A i \in 1..Len(hist.log) : hist.log[i].out = ""
    /\ Len(RequestsOf("login")) = 1
    /\ Len(RequestsOf("plant_list")) = 1
    /\ Len(RequestsOf("total")) = 1
    /\ [i \in 1..Len(RequestsOf("day")) |-> RequestsOf("day")[i].arg]
           = daterange(loc.start_date, loc.end_date)
    /\ Len(RequestsOf("month")) = Len(loc.months)

\* C6: a sync call writes the cache file at most once, and only when the
\* whole fetch succeeded; a call whose fetch failed or was skipped leaves
\* every cache file as it was, and a write touches the year's file only.
C6_WriteOnceOnSuccess ==
    /\ hist.writes <= 1
    /\ hist.writes = 1 => FetchSucceeded
    /\ pc \in {"done", "raised"} =>
          \A n \in DOMAIN hist.files0 :
              (hist.writes = 0 \/ n # FileName(obj.year)) =>
                  n \in DOMAIN files /\ files[n] = hist.files0[n]
    /\ (pc \in {"done", "raised"} /\ hist.writes = 0) => files = hist.files0

C6_Witness ==
    /\ pc = "done"
    /\ hist.writes = 1
    /\ Len(RequestsOf("day")) >= 2
    /\ Len(RequestsOf("month")) >= 2

\* the call found a cache of the year, not complete, with day records
Resuming ==
    /\ hist.loaded # <<>>
    /\ ~hist.loaded[1][1]
    /\ DOMAIN hist.loaded[1][3] # {}

\* the day records of the cache the call found, and the latest date key D
CachedDays == hist.loaded[1][3]
LatestCached == strptime(MaxKey(DOMAIN CachedDays))

\* C7 as stated: a resuming sync sends day requests only for dates strictly
\* after the latest cached date key D.
C7_OnlyAfterLatest ==
    Resuming => \A i \in 1..Len(RequestsOf("day")) :
                    RequestsOf("day")[i].arg > LatestCached

\* C7 as amended: a resuming sync sends day requests only for dates from D
\* on: the first date requested is D itself, none is earlier than D.
C7_FromLatestOn ==
    Resuming =>
        /\ \A i \in 1..Len(RequestsOf("day")) : RequestsOf("day")[i].arg >= LatestCached
        /\ RequestsOf("day") # <<>> => RequestsOf("day")[1].arg = LatestCached

C7_Witness ==
    /\ pc = "done"
    /\ Resuming
    /\ loc.result
    /\ Len(RequestsOf("day")) >= 2

\* the call was a resuming sync and it succeeded
Resumed == pc = "done" /\ Resuming /\ loc.result

\* C8 as stated: a successful resuming sync leaves every cached DayRecord
\* (total energy and samples) as it was.
C8_CachedDaysUnchanged ==
    Resumed => \A k \in DOMAIN CachedDays :
                   k \in DOMAIN obj.days /\ obj.days[k] = CachedDays[k]

\* C8 as amended: a successful resuming sync keeps every cached DayRecord;
\* the samples of those dated before D are unchanged, and the total energy of
\* those of a month before D's month is unchanged.
C8_EarlierDaysUnchanged ==
    Resumed =>
        \A k \in DOMAIN CachedDays :
            /\ k \in DOMAIN obj.days
            /\ strptime(k) < LatestCached => obj.days[k].samples = CachedDays[k].samples
            /\ strptime(k) < datetime(year_of(LatestCached), month_of(LatestCached), 1) =>
                   obj.days[k].todayenergy = CachedDays[k].todayenergy

C8_Witness ==
    /\ Resumed
    /\ obj.days[MaxKey(DOMAIN CachedDays)] # CachedDays[MaxKey(DOMAIN CachedDays)]
    /\ \E k \in DOMAIN CachedDays :
          /\ strptime(k) < datetime(year_of(LatestCached), month_of(LatestCached), 1)
          /\ CachedDays[k].samples # <<>>
          /\ CachedDays[k].todayenergy > 0

\* the years of the cache files of a directory
LocalYears(dir) == {ParseInt(n)[1] : n \in {m \in DOMAIN dir : ParseInt(m) # <<>>}}

\* ascending, no element twice
SortedNoDuplicates(list) == \A i, j \in 1..Len(list) : i < j => list[i] < list[j]

\* C9 as stated: after a sync call the list of available years is ascending,
\* duplicate-free, and holds the local years and the years of the
\* Timespan.total response.
C9_YearsLocalAndReported ==
    pc = "done" =>
        /\ SortedNoDuplicates(obj.yearsavailable)
        /\ Range(obj.yearsavailable) = LocalYears(files) \cup DOMAIN hist.reported

\* C9 as amended: after a sync call the list of available years is ascending,
\* duplicate-free, and holds the local years and the years the
\* Timespan.total response gives a production above zero.
C9_YearsLocalAndProducing ==
    pc = "done" =>
        /\ SortedNoDuplicates(obj.yearsavailable)
        /\ Range(obj.yearsavailable) =
               LocalYears(files) \cup {y \in DOMAIN hist.reported : hist.reported[y] > 0}

C9_Witness ==
    /\ pc = "done"
    /\ \E y \in DOMAIN hist.reported : hist.reported[y] = 0
    /\ \E y \in Range(obj.yearsavailable) : y \notin LocalYears(files)
    /\ LocalYears(files) # {}

\* the call has loaded a file the program saved, and has not fetched since
Reloaded ==
    /\ pc = "login" \/ (pc = "done" /\ hist.log = <<>>)
    /\ loc.found
    /\ FileName(obj.year) \in DOMAIN saved

\* what was saved to the file of the year of the call
Saved == saved[FileName(obj.year)]

\* C10 as stated: what is loaded equals what was saved in every field:
\* complete flag, annual production, day records, plant id and plant name.
C10_RoundTripAllFields ==
    Reloaded =>
        /\ Snapshot(obj) = <<Saved.year_complete, Saved.yearproduction, Saved.days>>
        /\ obj.plant_id = Saved.plant_id
        /\ obj.plant_name = Saved.plant_name

\* C10 as amended: what is loaded equals what was saved in the complete flag,
\* the annual production and the day records; the plant id and name are not
\* in the file and are "plant_id" and "plant_name" after the load.
C10_RoundTripStoredFields ==
    Reloaded =>
        /\ Snapshot(obj) = <<Saved.year_complete, Saved.yearproduction, Saved.days>>
        /\ obj.plant_id = Set("plant_id")
        /\ obj.plant_name = Set("plant_name")

C10_Witness ==
    /\ Reloaded
    /\ obj.year_complete
    /\ \E k \in DOMAIN obj.days : obj.days[k].samples # <<>> /\ obj.days[k].todayenergy > 0
    /\ Saved.plant_name = Set("Home")

\* the call found a file of its year that does not unpickle
FoundCorrupt ==
    /\ pc \notin {"off", "idle"}
    /\ FileName(obj.year) \in DOMAIN hist.files0
    /\ ~Unpickles(hist.files0[FileName(obj.year)])

\* C11: a sync that finds the year's cache file unreadable goes on as if there
\* were no file: it does not abort, and it fetches from Jan 1 of the year.
C11_CorruptIsCacheMiss ==
    FoundCorrupt =>
        /\ pc # "raised"
        /\ loc.start_date = Jan1(obj.year)
        /\ loc.end_date = EndDate(obj.year, loc.now)

\* a sync of a year before the current one, without cache file, all requests
\* of which succeeded
PastYearFetched ==
    /\ pc = "done"
    /\ loc.result
    /\ ~loc.found
    /\ obj.year < year_of(loc.now)

\* C12: a sync of a past year with no cache file in which every remote call
\* succeeds ends with a DayRecord for every date of the year, complete ==
\* true, and the year's cache file written with that content.
C12_PastYearComplete ==
    PastYearFetched =>
        /\ DOMAIN obj.days = {strftime(d) : d \in Jan1(obj.year)..Dec31(obj.year)}
        /\ Cardinality(DOMAIN obj.days) = DaysPerYear
        /\ obj.year_complete
        /\ FileName(obj.year) \in DOMAIN files
        /\ files[FileName(obj.year)] = <<TRUE, obj.yearproduction, obj.days>>

C12_Witness ==
    /\ PastYearFetched
    /\ \A k \in DOMAIN obj.days : obj.days[k].samples # <<>> /\ obj.days[k].todayenergy > 0

\* the days of the plotted snapshot, and one with an energy and no samples
Plotted == call.fn = "plot_production_pil"
PlottedDays == call.arg[2]
TotalOnly(d) == PlottedDays[d].todayenergy > 0 /\ DOMAIN PlottedDays[d].samples = {}

\* the lines drawn at the x of a day
LinesOfDay(d) == {l \in call.res : l.xy[1] = XOfDay(d, call.arg[1])}

\* the energy bar of a day: from the bottom margin up by energy * pixels_per_kwh
IsBarOf(l, d) ==
    /\ l.xy[2] = PerPixel * (height - bottommargin)
    /\ l.xy[4] = l.xy[2] - PerPixel * PlottedDays[d].todayenergy * pixels_per_kwh
    /\ l.fill = Set("(0, 0, 128)")

\* C13 as stated: for a day with an energy above zero and no samples the
\* renderer draws the energy bar and no heatmap segment.
C13_BarWithoutSamples ==
    Plotted => \A d \in DOMAIN PlottedDays :
                   TotalOnly(d) => /\ \E l \in LinesOfDay(d) : IsBarOf(l, d)
                                   /\ \A l \in LinesOfDay(d) : IsBarOf(l, d)

\* C13 as amended: for a day with an energy above zero and no samples the
\* renderer draws nothing, neither bar nor heatmap segment; the bar of a day
\* is drawn when the day has at least one sample.
C13_NothingWithoutSamples ==
    Plotted => \A d \in DOMAIN PlottedDays :
                   /\ TotalOnly(d) => LinesOfDay(d) = {}
                   /\ DOMAIN PlottedDays[d].samples # {} =>
                          \E l \in LinesOfDay(d) : IsBarOf(l, d)

C13_Witness ==
    /\ Plotted
    /\ \E d \in DOMAIN PlottedDays : TotalOnly(d) /\ PlottedDays[d].todayenergy = 2 * MaxTime + 1

\* the server rejected the login of the call: status or success flag
LoginRejected ==
    /\ hist.log # <<>>
    /\ hist.log[1].kind = "login"
    /\ hist.log[1].out = "LoginError"

\* C14: a login the server rejects is reported as a login error, which is
\* not the report of a connection failure.
C14_LoginErrorReported ==
    (pc = "done" /\ LoginRejected) =>
        /\ msg = "Login Error"
        /\ msg # Handler("ConnectionError")

\* bucket i of the table takes the power: its upper bound is at least the power
Takes(i, power) ==
    \/ power_to_color_table[i][1] = Unset
    \/ power <= power_to_color_table[i][1][1]

\* the bounds of the table: finite and strictly increasing, then infinity
BoundsIncrease ==
    LET n == Len(power_to_color_table)
    IN /\ power_to_color_table[n][1] = Unset
       /\ \A i \in 1..(n - 1) : power_to_color_table[i][1] # Unset
       /\ \A i \in 1..(n - 2) :
              power_to_color_table[i][1][1] < power_to_color_table[i + 1][1][1]
       /\ [i \in 1..(n - 1) |-> power_to_color_table[i][1][1]]
              = <<0, 500, 1000, 2000, 3000, 4000>>

\* C15: power_to_color returns the color of the first bucket of the table
\* whose upper bound is >= the power: 500 is of the 500 bucket, 501 of the
\* 1000 bucket; the bounds increase strictly and end in infinity, so every
\* power, a negative one too, has a color.
C15_FirstBucketNotBelow ==
    call.fn = "power_to_color" =>
        LET power == call.arg[1]
        IN /\ BoundsIncrease
           /\ call.res # Unset
           /\ \E i \in 1..Len(power_to_color_table) :
                 /\ call.res = Set(power_to_color_table[i][2])
                 /\ Takes(i, power)
                 /\ \A j \in 1..(i - 1) : ~Takes(j, power)
           /\ power = 500 => call.res = Set("#87CEFA")
           /\ power = 501 => call.res = Set("#00FF00")
           /\ power < 0 => call.res = Set("#C0C0C0")

C15_Witness ==
    /\ call.fn = "power_to_color"
    /\ call.arg = <<500>>
    /\ call.res = Set("#87CEFA")

\* C16: the transform of the digest keeps the length, turns every '0' at an
\* even index (counted from 0) into 'c' and leaves every other character,
\* at odd indexes and at even ones not holding '0', as it is.
C16_EvenZerosToC ==
    call.fn = "hash_password" =>
        /\ Len(call.res) = Len(call.arg)
        /\ \A n \in 1..Len(call.arg) :
              call.res[n] = IF (n - 1) % 2 = 0 /\ call.arg[n] = "0" THEN "c" ELSE call.arg[n]

C16_Witness ==
    /\ call.fn = "hash_password"
    /\ Len(call.arg) = MaxDigest
    /\ \E n \in 1..Len(call.arg) : (n - 1) % 2 = 0 /\ call.arg[n] = "0" /\ call.res[n] = "c"
    /\ \E n \in 1..Len(call.arg) : (n - 1) % 2 = 1 /\ call.arg[n] = "0" /\ call.res[n] = "0"

\* the times the "data" of the merge has a power for
TimesSent == {k[2] : k \in DOMAIN call.arg[2]}

\* C17: merging the same day detail twice into a sample map gives what
\* merging it once gives; the merge overwrites the power of a time the
\* response has and keeps the samples of the times it has not.
C17_MergeIdempotent ==
    call.fn = "merge_samples" =>
        LET samples == call.arg[1]
            data == call.arg[2]
            once == call.res[1]
            twice == call.res[2]
        IN /\ twice = once
           /\ DOMAIN once = DOMAIN samples \cup TimesSent
           /\ \A k \in DOMAIN data : once[k[2]] = data[k]
           /\ \A t \in DOMAIN samples \ TimesSent : once[t] = samples[t]

C17_Witness ==
    /\ call.fn = "merge_samples"
    /\ \E t \in DOMAIN call.arg[1] \cap TimesSent : call.arg[1][t] # call.res[1][t]
    /\ DOMAIN call.arg[1] \ TimesSent # {}
    /\ TimesSent \ DOMAIN call.arg[1] = {}

\* the date keys of a map of day records are of the year
KeysWithin(days, year) == \A k \in DOMAIN days : k[1] = year

\* C18: at every point of a sync the date keys of the snapshot in memory are
\* of the snapshot's year, and so are the keys of every cache file written,
\* the keys the month merge makes included.
C18_KeysWithinYear ==
    /\ KeysWithin(obj.days, obj.year)
    /\ \A n \in DOMAIN files :
          (Unpickles(files[n]) /\ ParseInt(n) # <<>>) =>
              KeysWithin(files[n][3], ParseInt(n)[1])

\* a sync has ended whose month merge made a record after the last day fetched
C18_Witness ==
    /\ pc = "done"
    /\ loc.result
    /\ \E k \in DOMAIN obj.days : strptime(k) > loc.end_date
    /\ \E k \in DOMAIN files[FileName(obj.year)][3] :
          strptime(k) > loc.end_date /\ files[FileName(obj.year)][3][k].samples = <<>>

\* the call is in its fetch, or has ended after one
Fetching == pc \in {"login", "plant_list", "total", "days", "months", "logout"}
Fetched == pc = "done" /\ hist.log # <<>>

\* C19: after a successful fetch complete is true if and only if the year of
\* start_date is before the current year; a successful sync of the current
\* year leaves it false, and a sync whose fetch failed never sets it.
C19_CompleteIffPastYear ==
    /\ Fetching => ~obj.year_complete
    /\ Fetched => (obj.year_complete <=>
                      (loc.result /\ year_of(loc.start_date) < year_of(loc.now)))
    /\ (Fetched /\ loc.result /\ obj.year = year_of(loc.now)) => ~obj.year_complete
    /\ (Fetched /\ ~loc.result) => ~obj.year_complete

\* the current year fetched with success from no cache
C19_Witness ==
    /\ Fetched
    /\ loc.result
    /\ ~loc.found
    /\ obj.year = year_of(loc.now)
    /\ ~obj.year_complete
    /\ ~files[FileName(obj.year)][1]

\* C20: when the fetch was skipped or failed at any step, also after the
\* Timespan.total response, the server's part of the available years is
\* empty and the available years are the local years.
C20_NoServerYearsOnFailure ==
    (pc = "done" /\ ~loc.result) =>
        /\ DOMAIN obj.yearsavailableonserver = {}
        /\ Range(obj.yearsavailable) = LocalYears(files)

\* the events of the call that are requests (a progress report is none)
IsRequest(ev) == ev.kind # "progress"
LoginSucceeded ==
    \E i \in 1..Len(hist.log) : hist.log[i].kind = "login" /\ hist.log[i].out = ""
CallEnded == pc \in {"done", "raised"}

\* C21: in every sync call a logout request is issued exactly once if the
\* login succeeded, whatever became of the later requests, and after every
\* other request of the call; if the login failed or was never attempted no
\* logout request is issued. At most one session is open at any time: a call
\* logs in at most once, and no session is logged in when a call logs in.
C21_LogoutOnceAndLast ==
    /\ Len(RequestsOf("logout")) <= 1
    /\ \A i \in 1..Len(hist.log) :
          hist.log[i].kind = "logout" => (i = Len(hist.log) /\ LoginSucceeded)
    /\ (CallEnded /\ LoginSucceeded) =>
          /\ Len(RequestsOf("logout")) = 1
          /\ hist.log[Len(hist.log)].kind = "logout"
    /\ (CallEnded /\ ~LoginSucceeded) => RequestsOf("logout") = <<>>
    /\ Len(SelectSeq(hist.log, LAMBDA ev : ev.kind = "login" /\ ev.out = "")) <= 1
    /\ pc = "login" => ~gwa
    /\ gwa => (LoginSucceeded \/ pc \in {"idle", "off"})

\* a call that logged in and ended with a fault of a later request in flight
C21_Witness ==
    /\ pc = "raised"
    /\ exc = "KeyError"
    /\ LoginSucceeded
    /\ Len(RequestsOf("day")) >= 1
    /\ Len(RequestsOf("logout")) = 1

\* the requests of the call in the order they were sent
RequestLog == SelectSeq(hist.log, IsRequest)

\* the place of a kind of request in the order of the claim
Rank(kind) ==
    CASE kind = "login" -> 1
      [] kind = "plant_list" -> 2
      [] kind = "total" -> 3
      [] kind = "day" -> 4
      [] kind = "month" -> 5
      [] kind = "logout" -> 6

\* the dates of the call's range, and the first days of their months
RangeDates == loc.start_date .. loc.end_date
FirstDays == {datetime(year_of(d), month_of(d), 1) : d \in RangeDates}

\* C22: within one sync call the requests are issued one at a time in a fixed
\* order: login, plant list, the Timespan.total request, the day requests in
\* ascending date order, then one month request per distinct (year, month) of
\* the range in ascending order; no month request precedes a day request and
\* no data request is issued before a successful login.
C22_FixedOrder ==
    LET r == RequestLog
        days == RequestsOf("day")
        months == RequestsOf("month")
    IN /\ r # <<>> => r[1].kind = "login"
       /\ \A i \in 1..Len(r) :
             /\ i > 1 => r[1].out = ""
             /\ r[i].kind = "plant_list" => i = 2
             /\ r[i].kind = "total" => i = 3
             /\ r[i].kind \in {"day", "month"} => i >= 4
       /\ \A i \in 1..(Len(r) - 1) :
             /\ Rank(r[i].kind) <= Rank(r[i + 1].kind)
             /\ Rank(r[i].kind) = Rank(r[i + 1].kind) => r[i].kind \in {"day", "month"}
             /\ r[i].out # "" => r[i + 1].kind = "logout"
       /\ \A i \in 1..Len(days) :
             /\ days[i].arg = loc.start_date + (i - 1)
             /\ days[i].arg \in RangeDates
       /\ months # <<>> => Len(days) = Cardinality(RangeDates)
       /\ \A i \in 1..Len(months) :
             /\ months[i].arg \in FirstDays
             /\ Cardinality({f \in FirstDays : f < months[i].arg}) = i - 1
       /\ (pc = "done" /\ loc.result) =>
             /\ Len(days) = Cardinality(RangeDates)
             /\ Len(months) = Cardinality(FirstDays)

\* a fetch over two months that went through
C22_Witness ==
    /\ pc = "done"
    /\ loc.result
    /\ Len(RequestsOf("day")) >= 3
    /\ Len(RequestsOf("month")) >= 2
    /\ Len(RequestLog) = Len(RequestsOf("day")) + Len(RequestsOf("month")) + 4

\* the places in the log of the events of one kind, in their order
RECURSIVE PlacesFrom(_, _)
PlacesFrom(kind, i) ==
    IF i > Len(hist.log) THEN <<>>
    ELSE IF hist.log[i].kind = kind THEN <<i>> \o PlacesFrom(kind, i + 1)
    ELSE PlacesFrom(kind, i + 1)
PlacesOf(kind) == PlacesFrom(kind, 1)

\* C23 as stated: the sink is invoked once per date of the range, each time
\* after the day request of that date has completed, never before it is
\* issued; a date whose day request failed is not reported.
C23_ReportedAfterFetch ==
    LET reports == PlacesOf("progress")
        requests == PlacesOf("day")
    IN /\ \A k \in 1..Len(reports) :
             /\ k <= Len(requests)
             /\ requests[k] < reports[k]
             /\ hist.log[requests[k]].out = ""
       /\ (pc = "done" /\ loc.result) => Len(reports) = Cardinality(RangeDates)

\* C23 as amended: the sink is invoked once per date for which a day request
\* is issued, each time just before that request is issued; the date whose
\* day request failed has been reported already, and no date after it is.
C23_ReportedBeforeFetch ==
    LET reports == PlacesOf("progress")
        requests == PlacesOf("day")
    IN /\ Len(reports) = Len(requests)
       /\ \A k \in 1..Len(reports) : requests[k] = reports[k] + 1
       /\ \A k \in 1..(Len(requests) - 1) : hist.log[requests[k]].out = ""
       /\ (pc = "done" /\ loc.result) => Len(reports) = Cardinality(RangeDates)

\* a call whose third date failed, reported all the same
C23_Witness ==
    /\ CallEnded
    /\ Len(PlacesOf("day")) = 3
    /\ Len(PlacesOf("progress")) = 3
    /\ hist.log[PlacesOf("day")[3]].out = "GrowattApiError"

\* the values the sink was given, in their order
Reported == [k \in 1..Len(PlacesOf("progress")) |-> hist.log[PlacesOf("progress")[k]].arg]

\* round(a / b) of Python, a >= 0 and b > 0: the nearest whole number, a half
\* going to the even one
Round(a, b) ==
    LET q == a \div b
        r == a % b
    IN IF 2 * r < b THEN q
       ELSE IF 2 * r > b THEN q + 1
       ELSE IF q % 2 = 0 THEN q ELSE q + 1

\* C24 as stated: the value given to the sink for the k-th date of a range of
\* N dates is round(100 * k / N); the values are non-decreasing, lie in
\* 0..100, and the last one is 100.
C24_RoundedValue ==
    LET N == Cardinality(RangeDates)
    IN /\ \A k \in 1..Len(Reported) : Reported[k] = Round(100 * k, N)
       /\ \A k \in 1..Len(Reported) : Reported[k] \in 0..100
       /\ \A k \in 1..(Len(Reported) - 1) : Reported[k] <= Reported[k + 1]
       /\ Len(Reported) = N /\ N > 0 => Reported[N] = 100

\* C24 as amended: the value is 100 * k / N rounded down, int(100 * k / N);
\* the values are non-decreasing, lie in 0..100, and the one of the last date
\* of the range is 100.
C24_TruncatedValue ==
    LET N == Cardinality(RangeDates)
    IN /\ Len(Reported) <= N
       /\ \A k \in 1..Len(Reported) :
             /\ Reported[k] * N <= 100 * k
             /\ 100 * k < (Reported[k] + 1) * N
             /\ Reported[k] \in 0..100
       /\ \A k \in 1..(Len(Reported) - 1) : Reported[k] <= Reported[k + 1]
       /\ Len(Reported) = N /\ N > 0 => Reported[N] = 100

\* a range of three dates: 33, 66, 100
C24_Witness ==
    /\ Cardinality(RangeDates) = 3
    /\ Len(Reported) = 3
    /\ Reported[2] = 66
    /\ Reported[3] = 100

\* C25: after any sequence of successful syncs of a year starting from no
\* cache, every date from Jan 1 of the year through the end date of the
\* latest sync has had a day request issued for it in some sync: no date of
\* the covered range is skipped, even when a month response made day records
\* dated after the end date of an earlier sync.
C25_NoDateSkipped ==
    \A y \in Years :
        FileName(y) \in DOMAIN saved =>
            \A d \in Jan1(y)..saved[FileName(y)].end_date :
                d \in saved[FileName(y)].requested

\* C26: after every sync call, successful or failed, with or without a cache
\* file, the snapshot has every field the renderer reads defined (annual
\* production, plant identifier, plant display name, day-record map), so
\* that rendering it never faults on a missing field.
C26_FieldsDefined ==
    pc = "done" =>
        /\ obj.yearproduction # Unset
        /\ obj.plant_id # Unset
        /\ obj.plant_name # Unset
        /\ plot_title_pil(obj) = ""

\* C27: for every date of the snapshot's year, Dec 31 of a leap year (day
\* offset 365) included, the x at which the renderer draws the date's bar and
\* heatmap column lies inside the plot area: leftmargin <= x <= width -
\* rightmargin, width being (linewidth + 1) * 365 + leftmargin + rightmargin.
C27_XInPlotArea ==
    call.fn = "x_of_day" =>
        /\ PerPixel * leftmargin <= call.res[1]
        /\ call.res[1] <= PerPixel * (width - rightmargin)

====
